---- MODULE Spec2Model ----
(***************************************************************************)
(* A model of the binary Merkle tree of src/src/merkle.rs: construction    *)
(* (MerkleTree::new / build), proof generation (generate_proof),           *)
(* verification (verify) and incremental append (add).                     *)
(*                                                                         *)
(* Digests are modelled symbolically and collision-free: a digest is the   *)
(* prefix-coded term that produced it, a sequence of naturals in which a   *)
(* value v >= 1 stands for hash(v) and a 0 opens concat_hash(left, right). *)
(* Positions are 0-based as in the source; Get(level, i) is level.get(i).  *)
(***************************************************************************)
EXTENDS Integers, Sequences, FiniteSets, TLC

\* ---------------------------------------------------------------- bounds
NumValues == 2
MaxLeaves == 5
MaxIndex == 8

Values == 1..NumValues

RECURSIVE SeqsOfLen(_)
SeqsOfLen(n) ==
    IF n = 0 THEN {<<>>}
    ELSE {Append(s, v) : s \in SeqsOfLen(n - 1), v \in Values}

DataSeqs == UNION {SeqsOfLen(n) : n \in 0..MaxLeaves}

\* ------------------------------------------------------- Vec / Option
\* Option<T> is a sequence of length 0 (None) or 1 (Some(x)).
None == <<>>
Some(x) == <<x>>

\* Vec::get(i), 0-based
Get(level, i) == IF i >= 0 /\ i < Len(level) THEN Some(level[i + 1]) ELSE None

Last(s) == s[Len(s)]

\* ------------------------------------------------------------ digests
hash(value) == <<value>>

concat_hash(left, right) == <<0>> \o left \o right

\* ------------------------------------------------------- construction
\* the parity rule shared by generate_proof and add
sibling_index(actual_index) ==
    IF actual_index % 2 = 0 THEN actual_index + 1 ELSE actual_index - 1

\* mutant: a lone last digest is paired with the first digest of the level
build_sibling_first(previous_level, i) ==
    IF Get(previous_level, i + 1) # None
    THEN Get(previous_level, i + 1)[1]
    ELSE previous_level[1]

\* the digest build pairs with position i (i even) of previous_level
build_sibling(previous_level, i) ==
    IF Get(previous_level, i + 1) # None
    THEN Get(previous_level, i + 1)[1]
    ELSE previous_level[i + 1]

\* mutant: a lone last digest is skipped instead of paired with itself
build_level_skip_lone(previous_level) ==
    [j \in 1..(Len(previous_level) \div 2) |->
        concat_hash(previous_level[2 * j - 1], previous_level[2 * j])]

\* one pass of the for loop of build: the level above previous_level
build_level(previous_level) ==
    [j \in 1..((Len(previous_level) + 1) \div 2) |->
        concat_hash(previous_level[2 * (j - 1) + 1],
                    build_sibling(previous_level, 2 * (j - 1)))]

RECURSIVE build(_)
build(t) ==
    IF t = <<>> THEN t
    ELSE IF Len(Last(t)) = 1 THEN t
    ELSE build(Append(t, build_level(Last(t))))

new(data) ==
    IF data = <<>> THEN <<>>
    ELSE build(<<[i \in 1..Len(data) |-> hash(data[i])]>>)

\* --------------------------------------------------- proof generation
\* mutant: the last matching leaf instead of the first
search_index_last(t, value) ==
    IF t = <<>> THEN None
    ELSE LET leaves == t[1]
             hits == {i \in 0..(Len(leaves) - 1) : leaves[i + 1] = hash(value)}
         IN  IF hits = {} THEN None
             ELSE Some(CHOOSE i \in hits : \A j \in hits : i >= j)

\* position of the first leaf equal to hash(value)
search_index(t, value) ==
    IF t = <<>> THEN None
    ELSE LET leaves == t[1]
             hits == {i \in 0..(Len(leaves) - 1) : leaves[i + 1] = hash(value)}
         IN  IF hits = {} THEN None
             ELSE Some(CHOOSE i \in hits : \A j \in hits : i <= j)

get_root(t) ==
    IF t = <<>> THEN None ELSE Get(Last(t), 0)

\* the for loop of generate_proof from level k (0-based) on;
\* fault is the unwrap of level.get(actual_index) on a missing position
RECURSIVE proof_walk(_, _, _, _)
proof_walk(t, k, actual_index, proofs) ==
    IF k >= Len(t) THEN [hashes |-> proofs, fault |-> FALSE]
    ELSE LET level == t[k + 1] IN
         IF Len(level) = 1 THEN [hashes |-> proofs, fault |-> FALSE]
         ELSE IF Get(level, sibling_index(actual_index)) # None
              THEN proof_walk(t, k + 1, actual_index \div 2,
                       Append(proofs, Get(level, sibling_index(actual_index))[1]))
              ELSE IF Get(level, actual_index) # None
                   THEN proof_walk(t, k + 1, actual_index \div 2,
                            Append(proofs, Get(level, actual_index)[1]))
                   ELSE [hashes |-> proofs, fault |-> TRUE]

NoProof(kind) == [kind |-> kind, hashes |-> <<>>, index |-> 0, root |-> <<>>]

\* mutant: the root is unwrapped before the element is searched
generate_proof_root_first(t, value) ==
    IF get_root(t) = None THEN NoProof("Panic")
    ELSE IF search_index(t, value) = None THEN NoProof("Err")
    ELSE LET element_index == search_index(t, value)[1]
             walk == proof_walk(t, 0, element_index, <<>>)
         IN  IF walk.fault THEN NoProof("Panic")
             ELSE [kind |-> "Ok", hashes |-> walk.hashes,
                   index |-> element_index, root |-> get_root(t)[1]]

generate_proof(t, value) ==
    IF search_index(t, value) = None THEN NoProof("Err")
    ELSE LET element_index == search_index(t, value)[1]
             walk == proof_walk(t, 0, element_index, <<>>)
         IN  IF walk.fault \/ get_root(t) = None THEN NoProof("Panic")
             ELSE [kind |-> "Ok", hashes |-> walk.hashes,
                   index |-> element_index, root |-> get_root(t)[1]]

\* ------------------------------------------------------- verification
\* mutant: left and right swapped
verify_step_swapped(actual_hash, proof_hash, actual_index) ==
    IF actual_index % 2 = 0
    THEN concat_hash(proof_hash, actual_hash)
    ELSE concat_hash(actual_hash, proof_hash)

\* mutant: the index parity is ignored, the running digest is always left
verify_step_left(actual_hash, proof_hash, actual_index) ==
    concat_hash(actual_hash, proof_hash)

\* mutant: the even branch hashes the proof entry with itself
verify_step_twice(actual_hash, proof_hash, actual_index) ==
    IF actual_index % 2 = 0
    THEN concat_hash(proof_hash, proof_hash)
    ELSE concat_hash(proof_hash, actual_hash)

\* one step of the loop of verify
verify_step(actual_hash, proof_hash, actual_index) ==
    IF actual_index % 2 = 0
    THEN concat_hash(actual_hash, proof_hash)
    ELSE concat_hash(proof_hash, actual_hash)

RECURSIVE verify_fold(_, _, _, _)
verify_fold(proof, k, actual_hash, actual_index) ==
    IF k > Len(proof) THEN actual_hash
    ELSE verify_fold(proof, k + 1,
                     verify_step(actual_hash, proof[k], actual_index),
                     actual_index \div 2)

verify(proof, leaf, root, index) == verify_fold(proof, 1, leaf, index) = root

\* ------------------------------------------------- incremental append
get_mut_leaves(t) == IF t = <<>> THEN <<<<>>>> ELSE t

\* mutant: the loop of add also visits the top level
add_levels_all(t) == Len(t)

\* the levels visited by the loop of add: i ranges over 0..add_levels(t)-1
add_levels(t) == Len(t) - 1

\* the digest add pairs with self_hash at actual_index of current_level
add_sibling(current_level, actual_index) ==
    IF Get(current_level, sibling_index(actual_index)) # None
    THEN Get(current_level, sibling_index(actual_index))[1]
    ELSE current_level[actual_index + 1]

add_new_hash(current_level, actual_index) ==
    IF actual_index % 2 = 0
    THEN concat_hash(current_level[actual_index + 1],
                     add_sibling(current_level, actual_index))
    ELSE concat_hash(add_sibling(current_level, actual_index),
                     current_level[actual_index + 1])

\* mutant: the parent digest is always pushed, never overwritten
add_write_push(parent_level, actual_index, new_hash) ==
    Append(parent_level, new_hash)

\* the match on self.tree[i + 1].get(actual_index): overwrite or push
add_write(parent_level, actual_index, new_hash) ==
    IF Get(parent_level, actual_index) # None
    THEN [parent_level EXCEPT ![actual_index + 1] = new_hash]
    ELSE Append(parent_level, new_hash)

\* the for loop of add from level i (0-based) on; fault is the unwrap of
\* current_level.get(actual_index) or the indexing self.tree[i + 1]
RECURSIVE add_loop(_, _, _, _)
add_loop(t, n, i, actual_index) ==
    IF i >= n THEN [tree |-> t, fault |-> FALSE]
    ELSE IF Get(t[i + 1], actual_index) = None \/ i + 2 > Len(t)
         THEN [tree |-> t, fault |-> TRUE]
         ELSE add_loop(
                  [t EXCEPT ![i + 2] =
                      add_write(@, actual_index \div 2,
                                add_new_hash(t[i + 1], actual_index))],
                  n, i + 1, actual_index \div 2)

\* mutant: the tree never raises a level
add_top_never(t) == t

\* the tree raises one level when its last level has two digests
add_top(t) ==
    IF Len(Last(t)) = 2
    THEN Append(t, <<concat_hash(Last(t)[1], Last(t)[2])>>)
    ELSE t

add(t, value) ==
    LET pushed == [get_mut_leaves(t) EXCEPT ![1] = Append(@, hash(value))]
    IN  IF Len(pushed[1]) = 1 THEN [tree |-> pushed, fault |-> FALSE]
        ELSE LET r == add_loop(pushed, add_levels(pushed), 0, Len(pushed[1]) - 1)
             IN  IF r.fault THEN r
                 ELSE [tree |-> add_top(r.tree), fault |-> FALSE]

\* -------------------------------------------------------------- state
VARIABLES
    tree,       \* MerkleTree.tree (merkle.rs:16): the levels, leaves first
    data,       \* the elements given to new (:44) and add (:160) so far
    origin,     \* "new" or "add": the operation that last changed tree
    query,      \* the value of the last generate_proof call (0: none yet)
    proof,      \* what that call returned (:85): Ok(Proof), Err or a panic
    check,      \* the last verify call on that proof (:144): arguments, result
    panicked    \* an unwrap of None (:107, :119, :183, :186) or an index
                \* out of range (:199-201) was hit

vars == <<tree, data, origin, query, proof, check, panicked>>

NoCheck == [kind |-> "None", leaf |-> <<>>, root |-> <<>>, index |-> 0,
            result |-> FALSE]

Init ==
    \E d \in DataSeqs :
        /\ data = d
        /\ tree = new(d)
        /\ origin = "new"
        /\ query = 0
        /\ proof = NoProof("None")
        /\ check = NoCheck
        /\ panicked = FALSE

Add(value) ==
    /\ ~panicked
    /\ Len(data) < MaxLeaves
    /\ LET r == add(tree, value) IN
        /\ tree' = r.tree
        /\ panicked' = r.fault
    /\ data' = Append(data, value)
    /\ origin' = "add"
    /\ query' = 0
    /\ proof' = NoProof("None")
    /\ check' = NoCheck

GenerateProof(value) ==
    /\ ~panicked
    /\ query' = value
    /\ proof' = generate_proof(tree, value)
    /\ panicked' = (proof'.kind = "Panic")
    /\ check' = NoCheck
    /\ UNCHANGED <<tree, data, origin>>

\* every digest held by the tree
Digests(t) == UNION {{t[k][i] : i \in 1..Len(t[k])} : k \in 1..Len(t)}

LeafDigests == {hash(v) : v \in Values}

\* the arguments verify is called with: the generated proof with its own
\* leaf, root and index, or with one of the three replaced
VerifyInputs ==
    {<<l, proof.root, proof.index>> : l \in LeafDigests}
    \cup {<<hash(query), r, proof.index>> : r \in LeafDigests \cup Digests(tree)}
    \cup {<<hash(query), proof.root, j>> : j \in 0..MaxIndex}

Verify(leaf, root, index) ==
    /\ ~panicked
    /\ proof.kind = "Ok"
    /\ check' = [kind |-> "Done", leaf |-> leaf, root |-> root, index |-> index,
                 result |-> verify(proof.hashes, leaf, root, index)]
    /\ UNCHANGED <<tree, data, origin, query, proof, panicked>>

Next ==
    \/ \E value \in Values : Add(value)
    \/ \E value \in Values : GenerateProof(value)
    \/ \E in \in VerifyInputs : Verify(in[1], in[2], in[3])

Spec == Init /\ [][Next]_vars

\* ------------------------------------------------------------ helpers
RECURSIVE Pow2(_)
Pow2(k) == IF k = 0 THEN 1 ELSE 2 * Pow2(k - 1)

\* ceil(log2(n)) for n >= 1
RECURSIVE CeilLog2(_)
CeilLog2(n) == IF n <= 1 THEN 0 ELSE 1 + CeilLog2((n + 1) \div 2)

LeafHashes(d) == [i \in 1..Len(d) |-> hash(d[i])]

Present(value) == \E i \in 1..Len(data) : data[i] = value

Occurrences(value) == Cardinality({i \in 1..Len(data) : data[i] = value})

\* a verify call on the generated proof with its own leaf, root and index
Genuine ==
    /\ check.kind = "Done"
    /\ check.leaf = hash(query)
    /\ check.root = proof.root
    /\ check.index = proof.index

\* the digest of level k (0-based) on the path from leaf index to the root
PathDigest(k, index) == tree[k + 1][(index \div Pow2(k)) + 1]

\* ------------------------------------------------------------- claims

\* C1: append equivalence. A tree obtained by MerkleTree::new on a prefix
\* of the elements followed by add of each remaining element has exactly
\* the levels (their number, their lengths, the digest at each position) of
\* MerkleTree::new on the whole sequence. Every split point is a reachable
\* state: Init draws the prefix, Add appends the rest.
AppendEquivalence == origin = "add" => tree = new(data)

AppendEquivalenceWitness ==
    /\ origin = "add"
    /\ Len(data) = 5
    /\ Len(tree) = 4
    /\ tree = new(data)

\* C2: proof round trip. For a tree built by new and any number of adds,
\* generate_proof of an element that is present (duplicated content
\* included) succeeds, and verify of its hashes with the element's digest,
\* the proof's root and the proof's index returns true.
ProofRoundTrip ==
    /\ (proof.kind # "None" /\ Present(query)) => proof.kind = "Ok"
    /\ Genuine => check.result = TRUE

ProofRoundTripWitness ==
    /\ Genuine
    /\ check.result = TRUE
    /\ origin = "add"
    /\ Occurrences(query) >= 2
    /\ Len(proof.hashes) = 3

\* C3 as stated: verify of a generated proof with its own leaf and root
\* returns false for every index other than the proof's.
MismatchedIndexRejected ==
    (/\ check.kind = "Done"
     /\ check.leaf = hash(query)
     /\ check.root = proof.root
     /\ check.index # proof.index) => check.result = FALSE

\* step k of verify under index j takes the same side as under the proof's
\* index, or the k-th proof entry is the path digest itself, so that the
\* side does not matter
StepAgrees(k, j) ==
    \/ (j \div Pow2(k)) % 2 = (proof.index \div Pow2(k)) % 2
    \/ proof.hashes[k + 1] = PathDigest(k, proof.index)

\* C3 amended: verify of a generated proof with its own leaf and root and
\* an index j returns false exactly when, at some step k below the number
\* of proof hashes, j div 2^k and index div 2^k differ in parity while the
\* k-th proof hash differs from the digest on the element's own path at
\* level k. Every other index is accepted: one that agrees with the proof's
\* index modulo 2^(number of hashes), and one that differs only at levels
\* where the proof entry is the path digest (a self-duplicated last node,
\* or a sibling of equal content).
MismatchedIndexRejectedAmended ==
    (/\ check.kind = "Done"
     /\ check.leaf = hash(query)
     /\ check.root = proof.root)
    => (check.result = TRUE
        <=> \A k \in 0..(Len(proof.hashes) - 1) : StepAgrees(k, check.index))

MismatchedIndexWitness ==
    /\ check.kind = "Done"
    /\ check.leaf = hash(query)
    /\ check.root = proof.root
    /\ check.index # proof.index
    /\ check.index < Len(data)
    /\ Len(proof.hashes) = 3
    /\ check.result = FALSE

\* C4: wrong leaf or wrong root is rejected. With the proof's own index,
\* verify returns false when the leaf is the digest of another element of
\* the tree of different content, and returns false when the root is any
\* digest other than the proof's root.
WrongLeafOrRootRejected ==
    /\ (/\ check.kind = "Done"
        /\ check.index = proof.index
        /\ check.root = proof.root
        /\ check.leaf # hash(query)
        /\ \E i \in 1..Len(data) : check.leaf = hash(data[i]))
       => check.result = FALSE
    /\ (/\ check.kind = "Done"
        /\ check.index = proof.index
        /\ check.leaf = hash(query)
        /\ check.root # proof.root)
       => check.result = FALSE

WrongLeafOrRootWitness ==
    /\ check.kind = "Done"
    /\ check.index = proof.index
    /\ check.root = proof.root
    /\ check.leaf # hash(query)
    /\ \E i \in 1..Len(data) : check.leaf = hash(data[i])
    /\ Len(proof.hashes) = 3
    /\ check.result = FALSE

\* C5: missing element. generate_proof returns Err(NonExistingElement)
\* exactly when hash(value) is none of the level-0 digests, which includes
\* every call on a tree with zero levels; it returns Ok when the digest is
\* present, and it never panics.
MissingElement ==
    proof.kind # "None" =>
        /\ proof.kind # "Panic"
        /\ proof.kind = "Err"
           <=> (tree = <<>> \/ \A i \in 1..Len(tree[1]) : tree[1][i] # hash(query))
        /\ proof.kind = "Ok"
           <=> (tree # <<>> /\ \E i \in 1..Len(tree[1]) : tree[1][i] = hash(query))

MissingElementWitness ==
    /\ tree = <<>>
    /\ query \in Values
    /\ proof.kind = "Err"

\* C6: construction with the self-duplication rule. MerkleTree::new on a
\* non-empty input gives level 0 the element digests in input order, and
\* position j of level k+1 is concat_hash of positions 2j and 2j+1 of
\* level k, or of position 2j with itself when 2j+1 does not exist. An
\* empty input gives zero levels and a single element exactly one level
\* holding its digest.
ConstructionRule ==
    origin = "new" =>
        /\ data = <<>> => tree = <<>>
        /\ Len(data) = 1 => tree = <<<<hash(data[1])>>>>
        /\ data # <<>> =>
            /\ tree # <<>>
            /\ tree[1] = LeafHashes(data)
            /\ \A k \in 1..(Len(tree) - 1) :
                \A j \in 0..(Len(tree[k + 1]) - 1) :
                    /\ 2 * j < Len(tree[k])
                    /\ tree[k + 1][j + 1] =
                        IF 2 * j + 1 < Len(tree[k])
                        THEN concat_hash(tree[k][2 * j + 1], tree[k][2 * j + 2])
                        ELSE concat_hash(tree[k][2 * j + 1], tree[k][2 * j + 1])

ConstructionRuleWitness ==
    /\ origin = "new"
    /\ Len(data) = 5
    /\ Len(tree) = 4
    /\ tree[2][3] = concat_hash(hash(data[5]), hash(data[5]))

\* C7: proof contents. An Ok proof carries the first level-0 position whose
\* digest is hash(value), the single digest of the top level, and one hash
\* per level below the top: with i_k = index div 2^k, the digest of level k
\* at the parity sibling of i_k when that position exists and the digest at
\* i_k itself when it does not. A single-leaf tree gives no hashes.
ProofContents ==
    proof.kind = "Ok" =>
        /\ tree # <<>>
        /\ proof.index < Len(tree[1])
        /\ tree[1][proof.index + 1] = hash(query)
        /\ \A i \in 0..(proof.index - 1) : tree[1][i + 1] # hash(query)
        /\ Len(Last(tree)) = 1
        /\ proof.root = Last(tree)[1]
        /\ Len(proof.hashes) = Len(tree) - 1
        /\ \A k \in 0..(Len(tree) - 2) :
            LET ik == proof.index \div Pow2(k)
                sib == IF ik % 2 = 0 THEN ik + 1 ELSE ik - 1
            IN  proof.hashes[k + 1] =
                    IF sib < Len(tree[k + 1])
                    THEN tree[k + 1][sib + 1]
                    ELSE tree[k + 1][ik + 1]
        /\ Len(data) = 1 => proof.hashes = <<>>

ProofContentsWitness ==
    /\ proof.kind = "Ok"
    /\ Len(data) = 5
    /\ proof.index = 4
    /\ Occurrences(query) = 1
    /\ proof.hashes = <<tree[1][5], tree[2][3], tree[3][1]>>

\* C8: shape invariant. After new on any input and any sequence of adds,
\* the tree has zero levels exactly when no element was ever given;
\* otherwise every level is non-empty, the last level has one digest, each
\* level of length n below it is followed by one of length ceil(n/2), and a
\* tree of L leaves has ceil(log2(L)) + 1 levels.
ShapeInvariant ==
    /\ tree = <<>> <=> data = <<>>
    /\ tree # <<>> =>
        /\ Len(tree[1]) = Len(data)
        /\ \A k \in 1..Len(tree) : Len(tree[k]) >= 1
        /\ Len(Last(tree)) = 1
        /\ \A k \in 1..(Len(tree) - 1) :
            Len(tree[k + 1]) = (Len(tree[k]) + 1) \div 2
        /\ Len(tree) = CeilLog2(Len(tree[1])) + 1

ShapeInvariantWitness ==
    /\ origin = "add"
    /\ Len(data) = 5
    /\ <<Len(tree[1]), Len(tree[2]), Len(tree[3]), Len(tree[4])>> = <<5, 3, 2, 1>>

\* C9: add never fails. From every tree reachable by new and adds, add
\* completes without a panic: each level it visits holds the position it
\* reads and the parent level it writes exists. On an empty tree it
\* creates level 0 holding just the new digest.
AddNeverFails ==
    /\ proof.kind = "None" => ~panicked
    /\ (origin = "add" /\ Len(data) = 1) => tree = <<<<hash(data[1])>>>>

AddNeverFailsWitness ==
    /\ origin = "add"
    /\ proof.kind = "None"
    /\ ~panicked
    /\ Len(data) = 4
    /\ Len(tree) = 3

\* the root digest MerkleTree::new gives each element sequence
RootOf == [d \in DataSeqs |-> get_root(new(d))]

\* C10 as stated: the root commits to the ordered input. Any element
\* sequence other than the one the tree holds gives another root.
RootCommits ==
    (query = 0 /\ tree # <<>>) =>
        \A d \in DataSeqs : RootOf[d] = get_root(tree) => d = data

\* C10 amended: the root commits to the ordered input of a given length.
\* Any other element sequence with the same number of elements gives
\* another root; equal roots and equal leaf counts imply equal sequences.
RootCommitsAmended ==
    (query = 0 /\ tree # <<>>) =>
        \A d \in SeqsOfLen(Len(data)) : RootOf[d] = get_root(tree) => d = data

RootCommitsWitness ==
    /\ origin = "add"
    /\ query = 0
    /\ Len(data) = 3
    /\ \E d \in SeqsOfLen(4) : RootOf[d] = get_root(tree)

====
